---- MODULE Spec2Model ----
(***************************************************************************)
(* Dispatch optimizers of the BESS size calculator.                        *)
(*                                                                         *)
(* Quantities of power and energy (kW, kWh) are exact fixed-point numbers: *)
(* the integer n stands for n / Unit, and a hundredth of a kW is a whole   *)
(* number of them.  Efficiencies and state-of-charge                       *)
(* fractions are exact fractions <<numerator, denominator>>.  Every        *)
(* multiplication and division the optimizers perform is exact on the      *)
(* inputs below (FixedPointExact), so the model computes what the code     *)
(* computes over the reals.  A day has NumHours hours (24 in the code).    *)
(***************************************************************************)
EXTENDS Integers, Sequences, FiniteSets, TLC

VARIABLES
    prog,               \* the optimizer being run
    pc,                 \* position in its code
    i,                  \* position of the running loop
    consumption, spot_prices, grid_threshold, battery_power, battery_capacity,
    battery_efficiency, min_soc, max_soc, initial_soc,
    soc, charge_schedule, discharge_schedule, net_grid_load, arbitrage_savings,
    remaining_hours,    \* the list built at the start of step 4
    energy_bound,       \* history: stored energy limited some discharge
    result,             \* what the call returned or raised
    driver,             \* the multi-day loop that calls the optimizer, if any
    date_range,         \* the dates of the loop, in chronological order
    day,                \* position of the loop in date_range
    main_initial_soc,   \* initial_soc of main, lines 339-349
    current_soc,        \* the state of charge carried from date to date
    total_savings,      \* total_arbitrage_savings or total_combined_savings
    daily_results,      \* daily_results or daily_combined_results
    dispatch_log,       \* history: the calls of the optimizer, in order
    response,           \* what the HTTP request of a fetch function meets
    data_source,        \* the data entry method chosen in the sidebar
    top_3_consumption,  \* the local of main, once it is assigned
    site_id,            \* the site id entered in the sidebar
    fetched_soc,        \* what fetch_battery_soc returned to main
    results             \* the dictionary compare_bess_sizes fills

\* the state of the loop in main, which no optimizer touches
caller ==
    <<driver, date_range, day, main_initial_soc, current_soc, total_savings,
      daily_results, dispatch_log>>

\* the state of main before its loops, of the fetch functions and of
\* compare_bess_sizes, which no optimizer touches either
session ==
    <<response, data_source, top_3_consumption, site_id, fetched_soc, results>>

\* the parameters of a call, and the state of its caller
inputs ==
    <<prog, consumption, spot_prices, grid_threshold, battery_power,
      battery_capacity, battery_efficiency, min_soc, max_soc, initial_soc,
      caller, session>>

locals ==
    <<soc, charge_schedule, discharge_schedule, net_grid_load,
      arbitrage_savings, remaining_hours, energy_bound>>

vars ==
    <<prog, pc, i, consumption, spot_prices, grid_threshold, battery_power,
      battery_capacity, battery_efficiency, min_soc, max_soc, initial_soc,
      soc, charge_schedule, discharge_schedule, net_grid_load,
      arbitrage_savings, remaining_hours, energy_bound, result, caller,
      session>>

(***************************************************************************)
(* Bounds of the model.                                                    *)
(***************************************************************************)
NumHours ==
    6

LowLoad ==
    1

PeakLoad ==
    3

MaxThreshold ==
    2

MaxPower ==
    2

SmallCapacity ==
    2

LargeCapacity ==
    16

MaxDates ==
    3

(***************************************************************************)
(* Program constants.                                                      *)
(***************************************************************************)
ArbitrageHours ==
    3

\* the factors of the peak-shaving savings, `* 104 * 6`
PeakTariff ==
    104

WinterMonths ==
    6

(***************************************************************************)
(* Exact arithmetic.                                                       *)
(***************************************************************************)
Unit ==
    100 * 2 ^ 13

kW(n) ==
    n * Unit

Zero ==
    <<0, 1>>

Half ==
    <<1, 2>>

One ==
    <<1, 1>>

\* x * f and x / f for a fraction f
Mul(x, f) ==
    (x * f[1]) \div f[2]

\* a division by an efficiency that loses nothing
DivLossless(x, f) ==
    x

Div(x, f) ==
    (x * f[2]) \div f[1]

Min2(a, b) ==
    IF a <= b THEN a ELSE b

\* round(x, 2): to the nearest hundredth, a value halfway between two of them
\* to the even one
Round2(x) ==
    LET cent == Unit \div 100
        q == x \div cent
        r == x % cent
    IN  IF 2 * r < cent THEN q * cent
        ELSE IF 2 * r > cent THEN (q + 1) * cent
        ELSE IF q % 2 = 0 THEN q * cent
        ELSE (q + 1) * cent

Min3(a, b, c) ==
    Min2(a, Min2(b, c))

Max2(a, b) ==
    IF a >= b THEN a ELSE b

RECURSIVE GCD(_, _)
GCD(a, b) ==
    IF b = 0 THEN a ELSE GCD(b, a % b)

\* the fraction n / d in lowest terms, d > 0
Fraction(n, d) ==
    LET g == GCD(IF n < 0 THEN -n ELSE n, d)
    IN  <<n \div g, d \div g>>

Hours ==
    0 .. (NumHours - 1)

\* max(profile)
Highest(profile) ==
    CHOOSE c \in {profile[h] : h \in DOMAIN profile} :
       \A h \in DOMAIN profile : profile[h] <= c

ZeroSchedule ==
    [h \in Hours |-> 0]

RECURSIVE SumOver(_, _)
SumOver(S, f) ==
    IF S = {} THEN 0
    ELSE LET h == CHOOSE x \in S : TRUE
         IN  f[h] + SumOver(S \ {h}, f)

\* a descending sort that is an ascending sort read backwards
PrecedesBackwards(h, g, key, reverse) ==
    IF reverse
    THEN key[h] > key[g] \/ (key[h] = key[g] /\ h > g)
    ELSE key[h] < key[g] \/ (key[h] = key[g] /\ h < g)

\* sorted(hours, key): Python's sort is stable, and with reverse=True hours
\* of equal key keep their original (ascending) order as well
Precedes(h, g, key, reverse) ==
    IF key[h] = key[g] THEN h < g
    ELSE IF reverse THEN key[h] > key[g] ELSE key[h] < key[g]

RECURSIVE SortedBy(_, _, _)
SortedBy(S, key, reverse) ==
    IF S = {} THEN <<>>
    ELSE LET first == CHOOSE h \in S :
                        \A g \in S \ {h} : Precedes(h, g, key, reverse)
         IN  <<first>> \o SortedBy(S \ {first}, key, reverse)

\* seq[-n:]
TakeLast(seq, n) ==
    SubSeq(seq, Len(seq) - Min2(n, Len(seq)) + 1, Len(seq))

\* seq[:n]
Take(seq, n) ==
    SubSeq(seq, 1, Min2(n, Len(seq)))

lowest_prices_indices ==
    Take(SortedBy(Hours, spot_prices, FALSE), ArbitrageHours)

\* the second sort without its reverse=True
HighestWithoutReverse ==
    Take(SortedBy(Hours, spot_prices, FALSE), ArbitrageHours)

highest_prices_indices ==
    Take(SortedBy(Hours, spot_prices, TRUE), ArbitrageHours)

(***************************************************************************)
(* Inputs.                                                                 *)
(***************************************************************************)
ConsumptionProfiles ==
    [Hours -> {kW(LowLoad), kW(PeakLoad)}]

PriceProfiles ==
    { [h \in Hours |-> 1],                      \* flat
      [h \in Hours |-> h],                      \* rising
      [h \in Hours |-> NumHours - 2 * h - 1],   \* falling, negative at the end
      [h \in Hours |-> h % 2] }                 \* alternating

GridThresholds ==
    {0, kW(MaxThreshold)}

BatteryPowers ==
    {0, kW(1), kW(MaxPower)}

BatteryCapacities ==
    {0, kW(SmallCapacity), kW(LargeCapacity)}

Efficiencies ==
    {Half, One}

SocBounds ==
    {<<Zero, One>>, <<Half, One>>, <<Zero, Half>>, <<Half, Half>>}

NoResult ==
    [outcome |-> "running", charge_schedule |-> ZeroSchedule,
     discharge_schedule |-> ZeroSchedule, net_grid_load |-> ZeroSchedule,
     arbitrage_savings |-> 0, ending_soc |-> <<0, 1>>]

\* no loop of main runs: the optimizer is called on its own
NoCaller ==
    /\ driver = "none"
    /\ date_range = <<>>
    /\ day = 1
    /\ main_initial_soc = Zero
    /\ current_soc = Zero
    /\ total_savings = 0
    /\ daily_results = <<>>
    /\ dispatch_log = <<>>

\* Python's None
None ==
    <<>>

\* a name that no statement has assigned yet
Unassigned ==
    [bound |-> FALSE]

\* the radio button of the data source before main has read it
NotChosen ==
    "not chosen"

\* main has not run, nothing was requested and nothing compared
NoSession ==
    /\ response = None
    /\ data_source = NotChosen
    /\ top_3_consumption = Unassigned
    /\ site_id = ""
    /\ fetched_soc = None
    /\ results = <<>>

InitFor(P) ==
    /\ prog \in P
    /\ NoCaller
    /\ NoSession
    /\ pc = "enter"
    /\ i = 0
    /\ consumption \in ConsumptionProfiles
    /\ spot_prices \in PriceProfiles
    /\ grid_threshold \in GridThresholds
    /\ battery_power \in BatteryPowers
    /\ battery_capacity \in BatteryCapacities
    /\ battery_efficiency \in Efficiencies
    /\ \E b \in SocBounds :
          /\ min_soc = b[1]
          /\ max_soc = b[2]
          /\ initial_soc \in IF prog = "bess_ps_pa" THEN {b[1], b[2]} ELSE {b[2]}
    /\ soc = 0
    /\ charge_schedule = ZeroSchedule
    /\ discharge_schedule = ZeroSchedule
    /\ net_grid_load = ZeroSchedule
    /\ arbitrage_savings = 0
    /\ remaining_hours = <<>>
    /\ energy_bound = FALSE
    /\ result = NoResult

Return(charge, discharge, net, savings, ending) ==
    /\ result' = [outcome |-> "returned", charge_schedule |-> charge,
                  discharge_schedule |-> discharge, net_grid_load |-> net,
                  arbitrage_savings |-> savings, ending_soc |-> ending]
    /\ pc' = "returned"

\* an exception that nothing catches ends the call, and with it the run
Raise(exception) ==
    /\ result' = [NoResult EXCEPT !.outcome = exception]
    /\ pc' = "raised"

(***************************************************************************)
(* best_bess.optimize_bess: peak shaving, arbitrage, final enforcement.    *)
(***************************************************************************)
BB_Enter ==
    /\ prog = "best_bess"
    /\ pc = "enter"
    /\ IF battery_capacity = 0
       THEN /\ Return(ZeroSchedule, ZeroSchedule, consumption, 0, <<0, 1>>)
            /\ UNCHANGED <<i, locals>>
       ELSE /\ soc' = Mul(battery_capacity, max_soc)
            /\ charge_schedule' = ZeroSchedule
            /\ discharge_schedule' = ZeroSchedule
            /\ net_grid_load' = consumption
            /\ pc' = "peak_shaving"
            /\ i' = 0
            /\ UNCHANGED <<arbitrage_savings, remaining_hours, energy_bound, result>>
    /\ UNCHANGED inputs

\* min(excess_load, battery_power, soc * battery_efficiency)
BB_DischargePower(excess) ==
    Min3(excess, battery_power, Mul(soc, battery_efficiency))

\* the net grid load left by a discharge, without the clamp
BB_Unclamped(load) ==
    load

\* the clamp of lines 71 and 102 on the net grid load left by a discharge
BB_ClampToThreshold(load) ==
    Min2(load, grid_threshold)

\* one iteration of the first pass, lines 62-71
BB_PeakShaving ==
    /\ prog = "best_bess"
    /\ pc = "peak_shaving"
    /\ IF net_grid_load[i] > grid_threshold
       THEN LET discharge_power == BB_DischargePower(net_grid_load[i] - grid_threshold)
            IN  /\ discharge_schedule' = [discharge_schedule EXCEPT ![i] = discharge_power]
                /\ soc' = soc - Div(discharge_power, battery_efficiency)
                /\ net_grid_load' = [net_grid_load EXCEPT
                                       ![i] = BB_ClampToThreshold(@ - discharge_power)]
       ELSE UNCHANGED <<soc, discharge_schedule, net_grid_load>>
    /\ IF i + 1 < NumHours
       THEN /\ i' = i + 1
            /\ pc' = pc
       ELSE /\ i' = 1
            /\ pc' = "arbitrage_charge"
    /\ UNCHANGED <<inputs, charge_schedule, arbitrage_savings, remaining_hours,
                   energy_bound, result>>

\* one iteration of the loop over lowest_prices_indices, lines 77-83
BB_ArbitrageCharge ==
    /\ prog = "best_bess"
    /\ pc = "arbitrage_charge"
    /\ LET hour == lowest_prices_indices[i]
           charge_power == Min2(battery_power,
                                Div(Mul(battery_capacity, max_soc) - soc,
                                    battery_efficiency))
       IN  IF /\ soc < Mul(battery_capacity, max_soc)
              /\ net_grid_load[hour] + charge_power <= grid_threshold
           THEN /\ charge_schedule' = [charge_schedule EXCEPT ![hour] = charge_power]
                /\ soc' = soc + Mul(charge_power, battery_efficiency)
                /\ net_grid_load' = [net_grid_load EXCEPT ![hour] = @ + charge_power]
           ELSE UNCHANGED <<soc, charge_schedule, net_grid_load>>
    /\ IF i < Len(lowest_prices_indices)
       THEN /\ i' = i + 1
            /\ pc' = pc
       ELSE /\ i' = 1
            /\ pc' = "arbitrage_discharge"
    /\ UNCHANGED <<inputs, discharge_schedule, arbitrage_savings, remaining_hours,
                   energy_bound, result>>

BB_DischargeUnguarded(potential_net_load) ==
    TRUE

\* the guard of an arbitrage discharge, line 89
BB_DischargeAllowed(potential_net_load) ==
    potential_net_load >= 0

\* one iteration of the loop over highest_prices_indices, lines 85-92
BB_ArbitrageDischarge ==
    /\ prog = "best_bess"
    /\ pc = "arbitrage_discharge"
    /\ LET hour == highest_prices_indices[i]
           discharge_power == Min2(battery_power, Mul(soc, battery_efficiency))
       IN  IF /\ soc > Mul(battery_capacity, min_soc)
              /\ BB_DischargeAllowed(net_grid_load[hour] - discharge_power)
           THEN /\ discharge_schedule' = [discharge_schedule EXCEPT ![hour] = @ + discharge_power]
                /\ soc' = soc - Div(discharge_power, battery_efficiency)
                /\ net_grid_load' = [net_grid_load EXCEPT ![hour] = @ - discharge_power]
           ELSE UNCHANGED <<soc, discharge_schedule, net_grid_load>>
    /\ IF i < Len(highest_prices_indices)
       THEN /\ i' = i + 1
            /\ pc' = pc
       ELSE /\ i' = 0
            /\ pc' = "final_discharge"
    /\ UNCHANGED <<inputs, charge_schedule, arbitrage_savings, remaining_hours,
                   energy_bound, result>>

\* first half of an iteration of the final pass, lines 96-102
BB_FinalDischarge ==
    /\ prog = "best_bess"
    /\ pc = "final_discharge"
    /\ IF net_grid_load[i] > grid_threshold
       THEN LET discharge_power == BB_DischargePower(net_grid_load[i] - grid_threshold)
            IN  /\ discharge_schedule' = [discharge_schedule EXCEPT ![i] = @ + discharge_power]
                /\ soc' = soc - Div(discharge_power, battery_efficiency)
                /\ net_grid_load' = [net_grid_load EXCEPT
                                       ![i] = BB_ClampToThreshold(@ - discharge_power)]
       ELSE UNCHANGED <<soc, discharge_schedule, net_grid_load>>
    /\ pc' = "final_charge"
    /\ UNCHANGED <<inputs, i, charge_schedule, arbitrage_savings, remaining_hours,
                   energy_bound, result>>

\* second half of an iteration of the final pass, lines 104-109, and the
\* return of line 111 after the last hour
BB_FinalCharge ==
    /\ prog = "best_bess"
    /\ pc = "final_charge"
    /\ LET charged == net_grid_load[i] < 0
           charge_power == Min3(-net_grid_load[i], battery_power,
                                Div(Mul(battery_capacity, max_soc) - soc,
                                    battery_efficiency))
           charge == IF charged THEN [charge_schedule EXCEPT ![i] = @ + charge_power]
                     ELSE charge_schedule
           net == IF charged
                  THEN [net_grid_load EXCEPT ![i] = Max2(@ + charge_power, 0)]
                  ELSE net_grid_load
       IN  /\ charge_schedule' = charge
           /\ net_grid_load' = net
           /\ soc' = IF charged THEN soc + Mul(charge_power, battery_efficiency) ELSE soc
           /\ IF i + 1 < NumHours
              THEN /\ i' = i + 1
                   /\ pc' = "final_discharge"
                   /\ UNCHANGED result
              ELSE /\ i' = i
                   /\ Return(charge, discharge_schedule, net, 0, <<0, 1>>)
    /\ UNCHANGED <<inputs, discharge_schedule, arbitrage_savings, remaining_hours,
                   energy_bound>>

BB_Next ==
    \/ BB_Enter
    \/ BB_PeakShaving
    \/ BB_ArbitrageCharge
    \/ BB_ArbitrageDischarge
    \/ BB_FinalDischarge
    \/ BB_FinalCharge

(***************************************************************************)
(* bess_size_app.optimize_bess: peak shaving only.                         *)
(***************************************************************************)
PS_Enter ==
    /\ prog = "bess_size_app"
    /\ pc = "enter"
    /\ IF battery_capacity = 0
       THEN /\ Return(ZeroSchedule, ZeroSchedule, consumption, 0, <<0, 1>>)
            /\ UNCHANGED <<i, locals>>
       ELSE /\ soc' = Mul(battery_capacity, max_soc)
            /\ charge_schedule' = ZeroSchedule
            /\ discharge_schedule' = ZeroSchedule
            /\ net_grid_load' = consumption
            /\ pc' = "peak_shaving"
            /\ i' = 0
            /\ UNCHANGED <<arbitrage_savings, remaining_hours, energy_bound, result>>
    /\ UNCHANGED inputs

\* the clamp of line 60 on the net grid load left by a discharge
PS_ClampToThreshold(load) ==
    Min2(load, grid_threshold)

\* one iteration of the loop of lines 53-60, and the return of line 62
PS_PeakShaving ==
    /\ prog = "bess_size_app"
    /\ pc = "peak_shaving"
    /\ LET shaved == net_grid_load[i] > grid_threshold
           discharge_power == Min3(net_grid_load[i] - grid_threshold, battery_power,
                                   Mul(soc, battery_efficiency))
           discharge == IF shaved
                        THEN [discharge_schedule EXCEPT ![i] = discharge_power]
                        ELSE discharge_schedule
           net == IF shaved
                  THEN [net_grid_load EXCEPT
                          ![i] = PS_ClampToThreshold(@ - discharge_power)]
                  ELSE net_grid_load
       IN  /\ discharge_schedule' = discharge
           /\ net_grid_load' = net
           /\ soc' = IF shaved THEN soc - Div(discharge_power, battery_efficiency) ELSE soc
           /\ IF i + 1 < NumHours
              THEN /\ i' = i + 1
                   /\ pc' = pc
                   /\ UNCHANGED result
              ELSE /\ i' = i
                   /\ Return(charge_schedule, discharge, net, 0, <<0, 1>>)
    /\ UNCHANGED <<inputs, charge_schedule, arbitrage_savings, remaining_hours,
                   energy_bound>>

PS_Next ==
    \/ PS_Enter
    \/ PS_PeakShaving

(***************************************************************************)
(* main.optimize_bess: the command-line variant; the battery capacity      *)
(* stands in for the power limit.                                          *)
(***************************************************************************)
MN_NoBatteryZeroLoad ==
    ZeroSchedule

\* what line 50 returns as the net grid load of a run without battery
MN_NoBatteryLoad ==
    consumption

MN_Enter ==
    /\ prog = "main"
    /\ pc = "enter"
    /\ IF battery_capacity = 0
       THEN /\ Return(ZeroSchedule, ZeroSchedule, MN_NoBatteryLoad, 0, <<0, 1>>)
            /\ UNCHANGED <<i, locals>>
       ELSE /\ soc' = Mul(battery_capacity, max_soc)
            /\ charge_schedule' = ZeroSchedule
            /\ discharge_schedule' = ZeroSchedule
            /\ net_grid_load' = ZeroSchedule
            /\ pc' = "peak_shaving"
            /\ i' = 0
            /\ UNCHANGED <<arbitrage_savings, remaining_hours, energy_bound, result>>
    /\ UNCHANGED inputs

\* one iteration of the loop of lines 56-61
MN_PeakShaving ==
    /\ prog = "main"
    /\ pc = "peak_shaving"
    /\ IF consumption[i] > grid_threshold
       THEN LET discharge_power == Min3(consumption[i] - grid_threshold,
                                        battery_capacity,
                                        Mul(soc, battery_efficiency))
            IN  /\ discharge_schedule' = [discharge_schedule EXCEPT ![i] = discharge_power]
                /\ soc' = soc - Div(discharge_power, battery_efficiency)
       ELSE UNCHANGED <<soc, discharge_schedule>>
    /\ IF i + 1 < NumHours
       THEN /\ i' = i + 1
            /\ pc' = pc
       ELSE /\ i' = 1
            /\ pc' = "arbitrage"
    /\ UNCHANGED <<inputs, charge_schedule, net_grid_load, arbitrage_savings,
                   remaining_hours, energy_bound, result>>

\* one iteration of the loop over sorted_hours, lines 64-69
MN_Arbitrage ==
    /\ prog = "main"
    /\ pc = "arbitrage"
    /\ LET hour == SortedBy(Hours, spot_prices, FALSE)[i]
       IN  IF /\ soc < Mul(battery_capacity, max_soc)
              /\ consumption[hour] <= grid_threshold
           THEN LET charge_power == Min2(battery_capacity,
                                         Div(Mul(battery_capacity, max_soc) - soc,
                                             battery_efficiency))
                IN  /\ charge_schedule' = [charge_schedule EXCEPT ![hour] = charge_power]
                    /\ soc' = soc + Mul(charge_power, battery_efficiency)
           ELSE UNCHANGED <<soc, charge_schedule>>
    /\ IF i < NumHours
       THEN /\ i' = i + 1
            /\ pc' = pc
       ELSE /\ i' = 0
            /\ pc' = "net_load"
    /\ UNCHANGED <<inputs, discharge_schedule, net_grid_load, arbitrage_savings,
                   remaining_hours, energy_bound, result>>

\* the loop of lines 72-73 and the return of line 75
MN_NetLoad ==
    /\ prog = "main"
    /\ pc = "net_load"
    /\ LET net == [h \in Hours |->
                     consumption[h] - discharge_schedule[h] + charge_schedule[h]]
       IN  /\ net_grid_load' = net
           /\ Return(charge_schedule, discharge_schedule, net, 0, <<0, 1>>)
    /\ UNCHANGED <<inputs, i, soc, charge_schedule, discharge_schedule,
                   arbitrage_savings, remaining_hours, energy_bound>>

MN_Next ==
    \/ MN_Enter
    \/ MN_PeakShaving
    \/ MN_Arbitrage
    \/ MN_NetLoad

(***************************************************************************)
(* bess_ps_pa.optimize_combined_peak_arbitrage.                            *)
(***************************************************************************)
\* Step 1, line 141: the hours whose consumption exceeds the threshold
peak_hours ==
    SortedBy({h \in Hours : consumption[h] > grid_threshold},
             [h \in Hours |-> h], FALSE)

\* lines 146-147: the other hours, cheapest first
non_peak_hours ==
    SortedBy({h \in Hours : ~(consumption[h] > grid_threshold)}, spot_prices, FALSE)

CPA_AvailableIgnoringFloor ==
    Mul(soc, battery_efficiency)

\* (soc - min_soc * battery_capacity) * battery_efficiency
CPA_Available ==
    Mul(soc - Mul(battery_capacity, min_soc), battery_efficiency)

\* (max_soc * battery_capacity - soc) / battery_efficiency
CPA_Headroom ==
    Div(Mul(battery_capacity, max_soc) - soc, battery_efficiency)

\* A consumption list shorter than the day makes the call raise IndexError:
\* net_grid_load is its copy (line 137), and the final check reads
\* net_grid_load[hour] for every hour of range(24) (line 204) unless an
\* earlier step has read a missing hour already.  The exception is
\* recorded where the call starts, since it leaves no other trace.
CPA_Enter ==
    /\ prog = "bess_ps_pa"
    /\ pc = "enter"
    /\ IF DOMAIN consumption = Hours
       THEN /\ soc' = Mul(battery_capacity, initial_soc)
            /\ charge_schedule' = ZeroSchedule
            /\ discharge_schedule' = ZeroSchedule
            /\ net_grid_load' = consumption
            /\ arbitrage_savings' = 0
            /\ pc' = "step2"
            /\ i' = 1
            /\ UNCHANGED result
       ELSE /\ Raise("IndexError")
            /\ UNCHANGED <<i, soc, charge_schedule, discharge_schedule,
                           net_grid_load, arbitrage_savings>>
    /\ UNCHANGED <<inputs, remaining_hours, energy_bound>>

\* Step 2, lines 149-161: one iteration of the loop over non_peak_hours, or
\* its end
CPA_ChargeBeforePeaks ==
    /\ prog = "bess_ps_pa"
    /\ pc = "step2"
    /\ IF i > Len(non_peak_hours)
       THEN /\ pc' = "step3"
            /\ i' = 1
            /\ UNCHANGED <<soc, charge_schedule, net_grid_load, arbitrage_savings>>
       ELSE LET hour == non_peak_hours[i]
                charging == soc < Mul(battery_capacity, max_soc)
                charge_needed == Min2(battery_power, CPA_Headroom)
                soc_after == IF charging
                             THEN soc + Mul(charge_needed, battery_efficiency)
                             ELSE soc
            IN  /\ soc' = soc_after
                /\ IF charging
                   THEN /\ charge_schedule' = [charge_schedule EXCEPT ![hour] = charge_needed]
                        /\ net_grid_load' = [net_grid_load EXCEPT ![hour] = @ + charge_needed]
                        /\ arbitrage_savings' =
                              arbitrage_savings - charge_needed * spot_prices[hour]
                   ELSE UNCHANGED <<charge_schedule, net_grid_load, arbitrage_savings>>
                /\ IF soc_after >= Mul(battery_capacity, max_soc)
                   THEN /\ pc' = "step3"
                        /\ i' = 1
                   ELSE /\ pc' = pc
                        /\ i' = i + 1
    /\ UNCHANGED <<inputs, discharge_schedule, remaining_hours, energy_bound, result>>

\* line 175: the hours no step has touched so far, cheapest first
CPA_RemainingHours ==
    SortedBy({h \in Hours : charge_schedule[h] = 0 /\ discharge_schedule[h] = 0},
             spot_prices, FALSE)

CPA_DischargeDerated(needed) ==
    Mul(Min3(needed, CPA_Available, battery_power), battery_efficiency)

\* min(discharge_needed, available energy, battery_power), lines 166 and 207
CPA_DischargePossible(needed) ==
    Min3(needed, CPA_Available, battery_power)

\* Step 3, lines 164-172: one iteration of the loop over peak_hours, or its
\* end, where line 175 builds remaining_hours
CPA_PeakShaving ==
    /\ prog = "bess_ps_pa"
    /\ pc = "step3"
    /\ IF i > Len(peak_hours)
       THEN /\ pc' = "step4"
            /\ i' = 1
            /\ remaining_hours' = CPA_RemainingHours
            /\ UNCHANGED <<soc, discharge_schedule, net_grid_load, arbitrage_savings,
                           energy_bound>>
       ELSE LET hour == peak_hours[i]
                discharge_needed == consumption[hour] - grid_threshold
                discharge_possible == CPA_DischargePossible(discharge_needed)
            IN  /\ IF discharge_possible > 0
                   THEN /\ discharge_schedule' =
                              [discharge_schedule EXCEPT ![hour] = discharge_possible]
                        /\ net_grid_load' =
                              [net_grid_load EXCEPT ![hour] = @ - discharge_possible]
                        /\ soc' = soc - Div(discharge_possible, battery_efficiency)
                        /\ arbitrage_savings' =
                              arbitrage_savings + discharge_possible * spot_prices[hour]
                   ELSE UNCHANGED <<soc, discharge_schedule, net_grid_load,
                                    arbitrage_savings>>
                /\ energy_bound' =
                      (energy_bound \/ CPA_Available < Min2(discharge_needed, battery_power))
                /\ pc' = pc
                /\ i' = i + 1
                /\ UNCHANGED remaining_hours
    /\ UNCHANGED <<inputs, charge_schedule, result>>

CPA_ChargeUnguarded(charge_possible) ==
    TRUE

\* the guard of an arbitrage charge, line 185
CPA_ChargeWorthwhile(charge_possible) ==
    charge_possible > 0

\* Step 4, lines 178-200: one iteration of the loop over remaining_hours, or
\* its end
CPA_Arbitrage ==
    /\ prog = "bess_ps_pa"
    /\ pc = "step4"
    /\ IF i > Len(remaining_hours)
       THEN /\ pc' = "final_check"
            /\ i' = 0
            /\ UNCHANGED <<soc, charge_schedule, discharge_schedule, net_grid_load,
                           arbitrage_savings, energy_bound>>
       ELSE LET hour == remaining_hours[i]
                price == spot_prices[hour]
                charge_possible ==
                    Min3(battery_power, CPA_Headroom, grid_threshold - net_grid_load[hour])
                over == net_grid_load[hour] - Min2(net_grid_load[hour], grid_threshold)
                discharge_possible == Min3(battery_power, CPA_Available, over)
            IN  /\ IF price * NumHours < SumOver(Hours, spot_prices)
                   THEN /\ IF CPA_ChargeWorthwhile(charge_possible)
                           THEN /\ charge_schedule' =
                                      [charge_schedule EXCEPT ![hour] = charge_possible]
                                /\ net_grid_load' =
                                      [net_grid_load EXCEPT ![hour] = @ + charge_possible]
                                /\ soc' = soc + Mul(charge_possible, battery_efficiency)
                                /\ arbitrage_savings' =
                                      arbitrage_savings - charge_possible * price
                           ELSE UNCHANGED <<soc, charge_schedule, net_grid_load,
                                            arbitrage_savings>>
                        /\ UNCHANGED <<discharge_schedule, energy_bound>>
                   ELSE /\ IF discharge_possible > 0
                           THEN /\ discharge_schedule' =
                                      [discharge_schedule EXCEPT ![hour] = discharge_possible]
                                /\ net_grid_load' =
                                      [net_grid_load EXCEPT ![hour] = @ - discharge_possible]
                                /\ soc' = soc - Div(discharge_possible, battery_efficiency)
                                /\ arbitrage_savings' =
                                      arbitrage_savings + discharge_possible * price
                           ELSE UNCHANGED <<soc, discharge_schedule, net_grid_load,
                                            arbitrage_savings>>
                        /\ energy_bound' =
                              (energy_bound \/ CPA_Available < Min2(battery_power, over))
                        /\ UNCHANGED charge_schedule
                /\ pc' = pc
                /\ i' = i + 1
    /\ UNCHANGED <<inputs, remaining_hours, result>>

\* soc / battery_capacity of line 213: Python raises ZeroDivisionError for a
\* zero divisor, also between floats
CPA_Return ==
    IF battery_capacity = 0
    THEN /\ result' = [NoResult EXCEPT !.outcome = "ZeroDivisionError"]
         /\ pc' = "raised"
    ELSE Return(charge_schedule, discharge_schedule, net_grid_load,
                arbitrage_savings, Fraction(soc, battery_capacity))

\* the final check, lines 203-211: one iteration, or the return of line 213
CPA_FinalCheck ==
    /\ prog = "bess_ps_pa"
    /\ pc = "final_check"
    /\ IF i >= NumHours
       THEN /\ CPA_Return
            /\ UNCHANGED <<i, soc, discharge_schedule, net_grid_load,
                           arbitrage_savings, energy_bound>>
       ELSE LET excess == net_grid_load[i] - grid_threshold
                discharge_possible == CPA_DischargePossible(excess)
            IN  /\ IF excess > 0 /\ soc > Mul(battery_capacity, min_soc)
                   THEN /\ discharge_schedule' =
                              [discharge_schedule EXCEPT ![i] = @ + discharge_possible]
                        /\ net_grid_load' =
                              [net_grid_load EXCEPT ![i] = @ - discharge_possible]
                        /\ soc' = soc - Div(discharge_possible, battery_efficiency)
                        /\ arbitrage_savings' =
                              arbitrage_savings + discharge_possible * spot_prices[i]
                   ELSE UNCHANGED <<soc, discharge_schedule, net_grid_load,
                                    arbitrage_savings>>
                /\ energy_bound' =
                      (energy_bound
                         \/ (excess > 0 /\ CPA_Available < Min2(excess, battery_power)))
                /\ i' = i + 1
                /\ UNCHANGED <<pc, result>>
    /\ UNCHANGED <<inputs, charge_schedule, remaining_hours>>

CPA_Next ==
    \/ CPA_Enter
    \/ CPA_ChargeBeforePeaks
    \/ CPA_PeakShaving
    \/ CPA_Arbitrage
    \/ CPA_FinalCheck

(***************************************************************************)
(* optimize_bess of bess_ps.py and of bess_ps_pa.py (the same text): price *)
(* arbitrage at full power, whatever the consumption and the battery hold. *)
(***************************************************************************)
AR_Enter ==
    /\ prog = "arbitrage"
    /\ pc = "enter"
    /\ charge_schedule' = ZeroSchedule
    /\ discharge_schedule' = ZeroSchedule
    /\ net_grid_load' = consumption
    /\ arbitrage_savings' = 0
    /\ IF Cardinality(DOMAIN spot_prices) < ArbitrageHours
       THEN /\ Return(ZeroSchedule, ZeroSchedule, consumption, 0, <<0, 1>>)
            /\ UNCHANGED i
       ELSE /\ pc' = "arbitrage_charge"
            /\ i' = 1
            /\ UNCHANGED result
    /\ UNCHANGED <<inputs, soc, remaining_hours, energy_bound>>

\* what a discharge at full power leaves of the hour's grid load
AR_NetAfterDischarge(load) ==
    load - battery_power

\* one iteration of the loop over lowest_prices_indices; net_grid_load is
\* a copy of consumption, and `net_grid_load[hour] += ...` raises IndexError
\* for an hour that list does not have
AR_Charge ==
    /\ prog = "arbitrage"
    /\ pc = "arbitrage_charge"
    /\ LET hour == lowest_prices_indices[i]
       IN  IF hour \in DOMAIN net_grid_load
           THEN /\ charge_schedule' = [charge_schedule EXCEPT ![hour] = battery_power]
                /\ net_grid_load' = [net_grid_load EXCEPT ![hour] = @ + battery_power]
                /\ arbitrage_savings' =
                      arbitrage_savings - battery_power * spot_prices[hour]
                /\ IF i < Len(lowest_prices_indices)
                   THEN /\ i' = i + 1
                        /\ pc' = pc
                   ELSE /\ i' = 1
                        /\ pc' = "arbitrage_discharge"
                /\ UNCHANGED result
           ELSE /\ Raise("IndexError")
                /\ UNCHANGED <<i, charge_schedule, net_grid_load, arbitrage_savings>>
    /\ UNCHANGED <<inputs, soc, discharge_schedule, remaining_hours, energy_bound>>

\* one iteration of the loop over highest_prices_indices, and the return
\* that follows the last one
AR_Discharge ==
    /\ prog = "arbitrage"
    /\ pc = "arbitrage_discharge"
    /\ LET hour == highest_prices_indices[i]
       IN  IF hour \in DOMAIN net_grid_load
           THEN /\ discharge_schedule' =
                      [discharge_schedule EXCEPT ![hour] = battery_power]
                /\ net_grid_load' =
                      [net_grid_load EXCEPT ![hour] = AR_NetAfterDischarge(@)]
                /\ arbitrage_savings' =
                      arbitrage_savings + battery_power * spot_prices[hour]
                /\ IF i < Len(highest_prices_indices)
                   THEN /\ i' = i + 1
                        /\ pc' = pc
                        /\ UNCHANGED result
                   ELSE /\ Return(charge_schedule, discharge_schedule',
                                  net_grid_load', arbitrage_savings', <<0, 1>>)
                        /\ UNCHANGED i
           ELSE /\ Raise("IndexError")
                /\ UNCHANGED <<i, discharge_schedule, net_grid_load,
                               arbitrage_savings>>
    /\ UNCHANGED <<inputs, soc, charge_schedule, remaining_hours, energy_bound>>

AR_Next ==
    \/ AR_Enter
    \/ AR_Charge
    \/ AR_Discharge

(***************************************************************************)
(* bess_size_app.price_arbitrage_schedule: arbitrage of a battery that     *)
(* starts the day empty.                                                   *)
(***************************************************************************)
PAS_PriceProfiles ==
    PriceProfiles \cup [Hours -> {1, 2}]
      \cup {[h \in Hours |-> NumHours - h], [h \in Hours |-> 0 - h]}

PAS_BatteryPowers ==
    BatteryPowers \cup {kW(100)}

PAS_BatteryCapacities ==
    BatteryCapacities \cup {kW(1000), (3 * Unit) \div 8}

\* the arguments of the call in bess_size_app.main, line 182: the function
\* is given neither the consumption nor the threshold nor the SOC bounds
InitPAS ==
    /\ prog = "price_arbitrage_schedule"
    /\ NoCaller
    /\ NoSession
    /\ pc = "enter"
    /\ i = 0
    /\ consumption = ZeroSchedule
    /\ spot_prices \in PAS_PriceProfiles
    /\ grid_threshold = 0
    /\ battery_power \in PAS_BatteryPowers
    /\ battery_capacity \in PAS_BatteryCapacities
    /\ battery_efficiency \in Efficiencies
    /\ min_soc = Zero
    /\ max_soc = One
    /\ initial_soc = Zero
    /\ soc = 0
    /\ charge_schedule = ZeroSchedule
    /\ discharge_schedule = ZeroSchedule
    /\ net_grid_load = ZeroSchedule
    /\ arbitrage_savings = 0
    /\ remaining_hours = <<>>
    /\ energy_bound = FALSE
    /\ result = NoResult

PAS_Enter ==
    /\ prog = "price_arbitrage_schedule"
    /\ pc = "enter"
    /\ soc' = 0
    /\ charge_schedule' = ZeroSchedule
    /\ discharge_schedule' = ZeroSchedule
    /\ arbitrage_savings' = 0
    /\ pc' = "charge"
    /\ i' = 1
    /\ UNCHANGED <<inputs, net_grid_load, remaining_hours, energy_bound, result>>

\* one iteration of the loop over lowest_prices_indices, lines 79-83
PAS_Charge ==
    /\ prog = "price_arbitrage_schedule"
    /\ pc = "charge"
    /\ LET hour == lowest_prices_indices[i]
           charge_power == Min2(battery_power,
                                Div(battery_capacity - soc, battery_efficiency))
       IN  IF soc < battery_capacity
           THEN /\ charge_schedule' = [charge_schedule EXCEPT ![hour] = charge_power]
                /\ soc' = soc + Mul(charge_power, battery_efficiency)
           ELSE UNCHANGED <<soc, charge_schedule>>
    /\ IF i < Len(lowest_prices_indices)
       THEN /\ i' = i + 1
            /\ pc' = pc
       ELSE /\ i' = 1
            /\ pc' = "discharge"
    /\ UNCHANGED <<inputs, discharge_schedule, net_grid_load, arbitrage_savings,
                   remaining_hours, energy_bound, result>>

\* one iteration of the loop over highest_prices_indices, lines 85-89
PAS_Discharge ==
    /\ prog = "price_arbitrage_schedule"
    /\ pc = "discharge"
    /\ LET hour == highest_prices_indices[i]
           discharge_power == Round2(Min2(battery_power, Mul(soc, battery_efficiency)))
       IN  IF soc > 0
           THEN /\ discharge_schedule' =
                      [discharge_schedule EXCEPT ![hour] = discharge_power]
                /\ soc' = soc - Div(discharge_power, battery_efficiency)
           ELSE UNCHANGED <<soc, discharge_schedule>>
    /\ IF i < Len(highest_prices_indices)
       THEN /\ i' = i + 1
            /\ pc' = pc
       ELSE /\ i' = 0
            /\ pc' = "savings"
    /\ UNCHANGED <<inputs, charge_schedule, net_grid_load, arbitrage_savings,
                   remaining_hours, energy_bound, result>>

PAS_HourRevenue(hour) ==
    discharge_schedule[hour] * spot_prices[hour]

\* what hour adds to the savings, line 92
PAS_HourSavings(hour) ==
    discharge_schedule[hour] * spot_prices[hour]
      - charge_schedule[hour] * spot_prices[hour]

\* one iteration of the loop of lines 91-92, and the return that follows
\* the last one
PAS_Savings ==
    /\ prog = "price_arbitrage_schedule"
    /\ pc = "savings"
    /\ arbitrage_savings' = arbitrage_savings + PAS_HourSavings(i)
    /\ IF i + 1 < NumHours
       THEN /\ i' = i + 1
            /\ pc' = pc
            /\ UNCHANGED result
       ELSE /\ result' = [outcome |-> "returned",
                          charge_schedule |-> charge_schedule,
                          discharge_schedule |-> discharge_schedule,
                          arbitrage_savings |-> arbitrage_savings']
            /\ pc' = "returned"
            /\ UNCHANGED i
    /\ UNCHANGED <<inputs, soc, charge_schedule, discharge_schedule,
                   net_grid_load, remaining_hours, energy_bound>>

PAS_Next ==
    \/ PAS_Enter
    \/ PAS_Charge
    \/ PAS_Discharge
    \/ PAS_Savings

(***************************************************************************)
(* compute_peak_shaving_savings, the same text in bess_size_app.py,        *)
(* bess_ps.py and bess_ps_pa.py.                                           *)
(***************************************************************************)
CPS_PeakShavingSigned(highest, threshold) ==
    highest - threshold

\* max(0, highest_hourly_consumption - grid_threshold)
CPS_PeakShaving(highest, threshold) ==
    Max2(0, highest - threshold)

\* the pair (peak_shaving, total_savings) the function returns
compute_peak_shaving_savings(profile, threshold) ==
    LET peak_shaving == CPS_PeakShaving(Highest(profile), threshold)
    IN  <<peak_shaving, peak_shaving * PeakTariff * WinterMonths>>

CPS_Call ==
    /\ prog = "compute_peak_shaving_savings"
    /\ pc = "enter"
    /\ LET returned == compute_peak_shaving_savings(consumption, grid_threshold)
       IN  result' = [outcome |-> "returned", peak_shaving |-> returned[1],
                      total_savings |-> returned[2]]
    /\ pc' = "returned"
    /\ UNCHANGED <<inputs, i, locals>>

(***************************************************************************)
(* The multi-day loops: bess_ps.main (lines 232-255) and bess_ps_pa.main   *)
(* (lines 351-380) around optimize_bess, and bess_ps_pa.main (lines        *)
(* 477-498) around optimize_combined_peak_arbitrage.                       *)
(***************************************************************************)
ArbitrageLoops ==
    {"bess_ps.main", "bess_ps_pa.main arbitrage"}

CombinedLoops ==
    {"bess_ps_pa.main combined"}

FetchOutcomes ==
    {None} \cup (PriceProfiles \ {[h \in Hours |-> h % 2]})

\* max(consumption)
highest_hourly_consumption ==
    Highest(consumption)

\* get_user_parameters: the least grid threshold the form accepts
min_grid_threshold ==
    Max2(0, highest_hourly_consumption - battery_power)

MainConsumptionProfiles ==
    { [h \in Hours |-> kW(LowLoad)],
      [h \in Hours |-> IF h = 1 THEN kW(PeakLoad) ELSE kW(LowLoad)] }

\* the state at the head of a loop: a consumption profile, the parameters
\* of get_user_parameters (a battery of C-rate 1, whose capacity is its
\* power) and the initial SOC, fetched from the site or max_soc
InitMain(D) ==
    /\ driver \in D
    /\ NoSession
    /\ prog = IF driver \in CombinedLoops THEN "bess_ps_pa" ELSE "arbitrage"
    /\ pc = "fetch"
    /\ i = 0
    /\ consumption \in MainConsumptionProfiles
    /\ spot_prices = None
    /\ battery_power \in BatteryPowers \ {0}
    /\ battery_capacity = battery_power
    /\ grid_threshold \in
          {t \in GridThresholds \cup {min_grid_threshold} : t >= min_grid_threshold}
    /\ battery_efficiency \in Efficiencies
    /\ \E b \in SocBounds :
          /\ min_soc = b[1]
          /\ max_soc = b[2]
    /\ main_initial_soc \in {max_soc, Half}
    /\ initial_soc = main_initial_soc
    /\ date_range \in {[k \in 1 .. n |-> k] : n \in 1 .. MaxDates}
    /\ day = 1
    /\ current_soc = main_initial_soc
    /\ total_savings = 0
    /\ daily_results = <<>>
    /\ dispatch_log = <<>>
    /\ soc = 0
    /\ charge_schedule = ZeroSchedule
    /\ discharge_schedule = ZeroSchedule
    /\ net_grid_load = ZeroSchedule
    /\ arbitrage_savings = 0
    /\ remaining_hours = <<>>
    /\ energy_bound = FALSE
    /\ result = NoResult

\* `not spot_prices`
Main_Unavailable(fetched) ==
    fetched = None

Main_ContinueResetting ==
    /\ day' = day + 1
    /\ current_soc' = main_initial_soc
    /\ UNCHANGED <<total_savings, daily_results>>

\* `continue`: on to the next date
Main_Continue ==
    /\ day' = day + 1
    /\ UNCHANGED <<current_soc, total_savings, daily_results>>

\* the head of an iteration: the fetch of the date's prices, then either
\* the skip of the date or the call of the optimizer
Main_Fetch ==
    /\ driver \in ArbitrageLoops \cup CombinedLoops
    /\ pc = "fetch"
    /\ day <= Len(date_range)
    /\ \E fetched \in FetchOutcomes :
          /\ spot_prices' = fetched
          /\ IF Main_Unavailable(fetched)
             THEN /\ Main_Continue
                  /\ UNCHANGED <<pc, initial_soc, remaining_hours, energy_bound, result>>
             ELSE /\ initial_soc' = current_soc
                  /\ pc' = "enter"
                  /\ remaining_hours' = <<>>
                  /\ energy_bound' = FALSE
                  /\ result' = NoResult
                  /\ UNCHANGED <<day, current_soc, total_savings, daily_results>>
    /\ UNCHANGED <<prog, i, consumption, grid_threshold, battery_power,
                   battery_capacity, battery_efficiency, min_soc, max_soc, soc,
                   charge_schedule, discharge_schedule, net_grid_load,
                   arbitrage_savings, driver, date_range, main_initial_soc,
                   dispatch_log, session>>

\* daily_results[current_date] = stored
Main_Put(dict, date, stored) ==
    [d \in DOMAIN dict \cup {date} |-> IF d = date THEN stored ELSE dict[d]]

Main_RunningTotalDropped(savings) ==
    total_savings

\* total_arbitrage_savings += arbitrage_savings
Main_RunningTotal(savings) ==
    total_savings + savings

\* a replay of the day that forgets its discharges
Main_ReplayedChargeOnly ==
    LET final_soc ==
           Mul(battery_capacity, current_soc)
             + SumOver(Hours, [h \in Hours |->
                  Mul(result.charge_schedule[h], battery_efficiency)])
    IN  Fraction(Max2(Mul(battery_capacity, min_soc),
                      Min2(final_soc, Mul(battery_capacity, max_soc))),
                 battery_capacity)

\* the state of charge the arbitrage loops compute from the schedule of the
\* day, clamped to the bounds
Main_ReplayedSoc ==
    LET final_soc ==
           Mul(battery_capacity, current_soc)
             + SumOver(Hours, [h \in Hours |->
                  Mul(result.charge_schedule[h], battery_efficiency)
                    - Div(result.discharge_schedule[h], battery_efficiency)])
    IN  Fraction(Max2(Mul(battery_capacity, min_soc),
                      Min2(final_soc, Mul(battery_capacity, max_soc))),
                 battery_capacity)

Main_StartingSocAgain ==
    initial_soc

\* final_soc of the combined loop, as the optimizer returned it
Main_ReturnedSoc ==
    result.ending_soc

\* the rest of an iteration, once the optimizer has returned
Main_Store ==
    /\ driver \in ArbitrageLoops \cup CombinedLoops
    /\ pc = "returned"
    /\ LET current_date == date_range[day]
           stored == IF driver \in CombinedLoops
                     THEN <<result.charge_schedule, result.discharge_schedule,
                            result.net_grid_load, result.arbitrage_savings>>
                     ELSE <<result.charge_schedule, result.discharge_schedule,
                            result.arbitrage_savings>>
           carried == IF driver \in CombinedLoops
                      THEN Main_ReturnedSoc
                      ELSE Main_ReplayedSoc
       IN  /\ daily_results' = Main_Put(daily_results, current_date, stored)
           /\ total_savings' = Main_RunningTotal(result.arbitrage_savings)
           /\ current_soc' = carried
           /\ dispatch_log' =
                 Append(dispatch_log,
                        [date |-> current_date, starting_soc |-> initial_soc,
                         ending_soc |-> result.ending_soc, carried_soc |-> carried])
    /\ day' = day + 1
    /\ pc' = "fetch"
    /\ UNCHANGED <<prog, i, consumption, spot_prices, grid_threshold,
                   battery_power, battery_capacity, battery_efficiency, min_soc,
                   max_soc, initial_soc, locals, result, driver, date_range,
                   main_initial_soc, session>>

Main_Next ==
    \/ Main_Fetch
    \/ Main_Store

(***************************************************************************)
(* fetch_spot_prices of bess_ps_pa.py, lines 9-30: one HTTP request, and   *)
(* what the function makes of each way the request can end.                *)
(***************************************************************************)
\* JSON values, as response.json() hands them over
JsonNull ==
    [type |-> "null"]

JsonNumber(n) ==
    [type |-> "number", value |-> n]

JsonObject(fields) ==
    [type |-> "object", fields |-> fields]

JsonArray(items) ==
    [type |-> "array", items |-> items]

\* an entry of the price payload, and an entry without the price in NOK
PricedEntry(p) ==
    JsonObject([NOK_per_kWh |-> p, EUR_per_kWh |-> p])

UnpricedEntry ==
    JsonObject([EUR_per_kWh |-> 1])

\* the request failed (requests.get, raise_for_status or response.json()
\* raised), or it delivered a JSON value
Failed(exception) ==
    [raised |-> exception, json |-> JsonNull]

Delivered(json) ==
    [raised |-> "none", json |-> json]

RequestFailures ==
    {Failed("ConnectionError"), Failed("HTTPError"), Failed("JSONDecodeError")}

\* all sequences over S of the lengths 0 .. n
SeqUpTo(S, n) ==
    UNION {[1 .. k -> S] : k \in 0 .. n}

FSP_Entries ==
    {PricedEntry(1), PricedEntry(2), UnpricedEntry, JsonNumber(1)}

FSP_Responses ==
    RequestFailures
      \cup {Delivered(JsonNull), Delivered(JsonObject([NOK_per_kWh |-> 1]))}
      \cup {Delivered(JsonArray(items)) : items \in SeqUpTo(FSP_Entries, NumHours + 1)}

InitFetch ==
    /\ prog = "fetch_spot_prices"
    /\ NoCaller
    /\ response \in FSP_Responses
    /\ data_source = NotChosen
    /\ top_3_consumption = Unassigned
    /\ site_id = ""
    /\ fetched_soc = None
    /\ results = <<>>
    /\ pc = "enter"
    /\ i = 0
    /\ consumption = ZeroSchedule
    /\ spot_prices = None
    /\ grid_threshold = 0
    /\ battery_power = 0
    /\ battery_capacity = 0
    /\ battery_efficiency = One
    /\ min_soc = Zero
    /\ max_soc = One
    /\ initial_soc = Zero
    /\ soc = 0
    /\ charge_schedule = ZeroSchedule
    /\ discharge_schedule = ZeroSchedule
    /\ net_grid_load = ZeroSchedule
    /\ arbitrage_savings = 0
    /\ remaining_hours = <<>>
    /\ energy_bound = FALSE
    /\ result = NoResult

\* a Python list as a function of its indexes 0 .. len - 1
ListOf(seq) ==
    [h \in 0 .. (Len(seq) - 1) |-> seq[h + 1]]

\* entry["NOK_per_kWh"] can be evaluated
FSP_Priced(entry) ==
    entry.type = "object" /\ "NOK_per_kWh" \in DOMAIN entry.fields

\* what entry["NOK_per_kWh"] raises where it cannot: a dictionary without
\* the key raises KeyError, a value that is no dictionary raises TypeError
FSP_Raised(entry) ==
    IF entry.type = "object" THEN "KeyError" ELSE "TypeError"

\* lines 12-30: the value returned, or the exception that leaves the
\* function because no except clause catches it
fetch_spot_prices(resp) ==
    IF resp.raised # "none"
    THEN [outcome |-> "returned", value |-> None]
    ELSE LET prices == resp.json
         IN  IF prices.type # "array" \/ prices.items = <<>>
             THEN [outcome |-> "returned", value |-> None]
             ELSE LET items == prices.items
                      malformed == {k \in 1 .. Len(items) : ~FSP_Priced(items[k])}
                  IN  IF malformed # {}
                      THEN LET first == CHOOSE k \in malformed :
                                           \A m \in malformed : k <= m
                           IN  [outcome |-> FSP_Raised(items[first]), value |-> None]
                      ELSE IF Len(items) # NumHours
                      THEN [outcome |-> "returned", value |-> None]
                      ELSE [outcome |-> "returned",
                            value |-> ListOf([k \in 1 .. Len(items) |->
                                                items[k].fields.NOK_per_kWh])]

FSP_Call ==
    /\ prog = "fetch_spot_prices"
    /\ pc = "enter"
    /\ result' = fetch_spot_prices(response)
    /\ pc' = IF result'.outcome = "returned" THEN "returned" ELSE "raised"
    /\ UNCHANGED <<inputs, i, locals>>

(***************************************************************************)
(* compare_bess_sizes of best_bess.py, lines 115-131: one call of          *)
(* optimize_bess and one entry of results for each candidate size.         *)
(***************************************************************************)
CompareLoops ==
    {"best_bess.compare_bess_sizes"}

\* line 117, in kWh
bess_sizes ==
    <<0, 500, 1000, 1500, 2000>>

\* lines 135-139
calculate_savings(load, prices, net) ==
    LET initial_cost == SumOver(Hours, [h \in Hours |-> load[h] * prices[h]])
        optimized_cost == SumOver(Hours, [h \in Hours |-> net[h] * prices[h]])
    IN  [initial_cost |-> initial_cost, optimized_cost |-> optimized_cost,
         savings |-> initial_cost - optimized_cost]

CMP_ConsumptionProfiles ==
    { [h \in Hours |-> kW(LowLoad)],
      [h \in Hours |-> IF h = 1 THEN kW(PeakLoad) ELSE kW(LowLoad)],
      [h \in Hours |-> IF h \in {1, NumHours - 2} THEN kW(PeakLoad) ELSE kW(LowLoad)] }

InitCompare ==
    /\ driver \in CompareLoops
    /\ prog = "best_bess"
    /\ pc = "compare"
    /\ i = 0
    /\ consumption \in CMP_ConsumptionProfiles
    /\ spot_prices \in PriceProfiles
    /\ grid_threshold \in GridThresholds
    /\ battery_power \in BatteryPowers
    /\ battery_capacity \in BatteryCapacities
    /\ battery_efficiency \in Efficiencies
    /\ \E b \in SocBounds :
          /\ min_soc = b[1]
          /\ max_soc = b[2]
    /\ initial_soc = max_soc
    /\ NoSession
    /\ date_range = <<>>
    /\ day = 1
    /\ main_initial_soc = Zero
    /\ current_soc = Zero
    /\ total_savings = 0
    /\ daily_results = <<>>
    /\ dispatch_log = <<>>
    /\ soc = 0
    /\ charge_schedule = ZeroSchedule
    /\ discharge_schedule = ZeroSchedule
    /\ net_grid_load = ZeroSchedule
    /\ arbitrage_savings = 0
    /\ remaining_hours = <<>>
    /\ energy_bound = FALSE
    /\ result = NoResult

\* the capacity the call of lines 121-124 is made with: the parameter
\* battery_capacity, whatever the candidate
CMP_CapacityOfCall(size) ==
    battery_capacity

\* the candidates that have an entry in results so far
CMP_Done ==
    Cardinality(DOMAIN results)

\* the head of an iteration: the call of optimize_bess, lines 120-124
CMP_Call ==
    /\ driver \in CompareLoops
    /\ pc = "compare"
    /\ CMP_Done < Len(bess_sizes)
    /\ LET size == bess_sizes[CMP_Done + 1]
       IN  /\ battery_capacity' = CMP_CapacityOfCall(size)
           /\ dispatch_log' =
                 Append(dispatch_log,
                        [size |-> size, battery_capacity |-> battery_capacity'])
    /\ pc' = "enter"
    /\ result' = NoResult
    /\ UNCHANGED <<prog, i, consumption, spot_prices, grid_threshold,
                   battery_power, battery_efficiency, min_soc, max_soc,
                   initial_soc, locals, driver, date_range, day,
                   main_initial_soc, current_soc, total_savings, daily_results,
                   session>>

\* the rest of an iteration, lines 125-128
CMP_Store ==
    /\ driver \in CompareLoops
    /\ pc = "returned"
    /\ LET size == bess_sizes[CMP_Done + 1]
       IN  results' = Main_Put(results, size,
                               calculate_savings(consumption, spot_prices,
                                                 result.net_grid_load))
    /\ pc' = "compare"
    /\ UNCHANGED <<prog, i, consumption, spot_prices, grid_threshold,
                   battery_power, battery_capacity, battery_efficiency, min_soc,
                   max_soc, initial_soc, locals, result, caller, response,
                   data_source, top_3_consumption, site_id, fetched_soc>>

\* max(results, key=savings): the first candidate, in the order of
\* insertion, that no candidate beats
CMP_Best ==
    LET best == CHOOSE k \in 1 .. Len(bess_sizes) :
                   /\ \A m \in 1 .. Len(bess_sizes) :
                         results[bess_sizes[m]].savings
                           <= results[bess_sizes[k]].savings
                   /\ \A m \in 1 .. (k - 1) :
                         results[bess_sizes[m]].savings
                           < results[bess_sizes[k]].savings
    IN  bess_sizes[best]

\* lines 130-131
CMP_Return ==
    /\ driver \in CompareLoops
    /\ pc = "compare"
    /\ CMP_Done = Len(bess_sizes)
    /\ result' = [outcome |-> "returned", results |-> results,
                  best_size |-> CMP_Best]
    /\ pc' = "compared"
    /\ UNCHANGED <<inputs, i, locals>>

CMP_Next ==
    \/ CMP_Call
    \/ CMP_Store
    \/ CMP_Return

(***************************************************************************)
(* The front of main, from the choice of the data source to the head of    *)
(* the first loop: bess_ps_pa.main, lines 215-354, and bess_ps.main, lines *)
(* 130-235, which differ in the place of the top-3 report only.            *)
(***************************************************************************)
SessionMains ==
    {"bess_ps.main", "bess_ps_pa.main arbitrage"}

\* what the sidebar's file uploader hands over: nothing, a file that
\* pandas cannot make the hourly table of, or the hourly values of the date
\* with the highest consumption, one value per hour the file has rows for
NoFile ==
    [kind |-> "none", hourly |-> <<>>]

UnreadableFile ==
    [kind |-> "unreadable", hourly |-> <<>>]

CsvFile(hourly) ==
    [kind |-> "csv", hourly |-> hourly]

\* a day with a peak in its first hour, whole and without its last hour
Uploads ==
    {NoFile, UnreadableFile}
      \cup { CsvFile([h \in 0 .. n - 1 |-> IF h = 1 THEN kW(PeakLoad) ELSE kW(LowLoad)]) :
                n \in {NumHours - 1, NumHours} }

\* sorted(all_consumption_data, key=lambda x: x[2], reverse=True)[:3], of
\* the date with the highest consumption: its hours and their values
Session_Top3(hourly) ==
    LET hours == Take(SortedBy(DOMAIN hourly, hourly, TRUE), 3)
    IN  [k \in DOMAIN hours |-> <<hours[k], hourly[hours[k]]>>]

\* the percentages the site reports
ReportedSocs ==
    {0, 50, 100}

\* the ways the request of fetch_battery_soc can end
SOC_Responses ==
    RequestFailures
      \cup {Delivered(JsonObject([batterySoc |-> JsonNumber(v)])) : v \in ReportedSocs}
      \cup {Delivered(JsonObject([batterySoc |-> JsonNull]))}
      \cup {Delivered(JsonObject([gridPower |-> 1])), Delivered(JsonArray(<<>>))}

\* what Python holds for a JSON value: None for null, the value otherwise
Decoded(json) ==
    IF json = JsonNull THEN None ELSE json

\* fetch_battery_soc: None for a failed request (RequestException) and for
\* a body that is not JSON (ValueError), data.get('batterySoc') otherwise,
\* which is None for a missing field and raises AttributeError for a JSON
\* value that has no get
fetch_battery_soc(resp) ==
    IF resp.raised # "none"
    THEN [outcome |-> "returned", value |-> None]
    ELSE IF resp.json.type # "object"
    THEN [outcome |-> "AttributeError", value |-> None]
    ELSE IF "batterySoc" \in DOMAIN resp.json.fields
    THEN [outcome |-> "returned", value |-> Decoded(resp.json.fields.batterySoc)]
    ELSE [outcome |-> "returned", value |-> None]

\* the fallback taken for the floor of the battery
Session_StartingSocAtFloor(fetched) ==
    IF fetched # None THEN Fraction(fetched.value, 100) ELSE min_soc

\* initial_soc of main: the fetched percentage as a fraction, or max_soc
Session_StartingSoc(fetched) ==
    IF fetched # None THEN Fraction(fetched.value, 100) ELSE max_soc

\* the values the sidebar's two SOC sliders can be left at, each on its own
SocFractions ==
    {Zero, Half, One}

InitSession ==
    /\ driver \in SessionMains
    /\ NoSession
    /\ prog = "arbitrage"
    /\ pc = "data_entry"
    /\ i = 0
    /\ consumption = <<>>
    /\ spot_prices = None
    /\ grid_threshold = 0
    /\ battery_power = 0
    /\ battery_capacity = 0
    /\ battery_efficiency = One
    /\ min_soc = Zero
    /\ max_soc = Zero
    /\ initial_soc = Zero
    /\ main_initial_soc = Zero
    /\ date_range \in {[k \in 1 .. n |-> k] : n \in 1 .. Min2(2, MaxDates)}
    /\ day = 1
    /\ current_soc = Zero
    /\ total_savings = 0
    /\ daily_results = <<>>
    /\ dispatch_log = <<>>
    /\ soc = 0
    /\ charge_schedule = ZeroSchedule
    /\ discharge_schedule = ZeroSchedule
    /\ net_grid_load = ZeroSchedule
    /\ arbitrage_savings = 0
    /\ remaining_hours = <<>>
    /\ energy_bound = FALSE
    /\ result = NoResult

\* the choice of the data source and the consumption it yields; main
\* returns when the list stays empty (`if not consumption`)
Session_DataEntry ==
    /\ driver \in SessionMains
    /\ pc = "data_entry"
    /\ \E source \in {"Manual Entry", "Upload CSV"}, upload \in Uploads,
          entered \in MainConsumptionProfiles :
          /\ source = "Manual Entry" => upload = NoFile
          /\ source = "Upload CSV" =>
                entered = [h \in Hours |-> kW(LowLoad)]
          /\ data_source' = source
          /\ IF source = "Manual Entry"
             THEN /\ consumption' = entered
                  /\ UNCHANGED top_3_consumption
             ELSE IF upload.kind = "csv"
             THEN /\ top_3_consumption' = Session_Top3(upload.hourly)
                  /\ consumption' =
                        [h \in DOMAIN upload.hourly |-> Round2(upload.hourly[h])]
             ELSE /\ consumption' = <<>>
                  /\ UNCHANGED top_3_consumption
          /\ pc' = IF consumption' = <<>> THEN "stopped" ELSE "parameters"
    /\ UNCHANGED <<prog, i, spot_prices, grid_threshold, battery_power,
                   battery_capacity, battery_efficiency, min_soc, max_soc,
                   initial_soc, locals, result, caller, response, site_id,
                   fetched_soc, results>>

\* get_user_parameters: a power of the select box, a threshold not below
\* the least the form accepts, a battery of C-rate 1, and the two SOC
\* sliders, which nothing compares with each other
Session_Parameters ==
    /\ driver \in SessionMains
    /\ pc = "parameters"
    /\ \E power \in BatteryPowers \ {0}, efficiency \in Efficiencies,
          lowest \in SocFractions, highest \in SocFractions :
          LET least == Max2(0, highest_hourly_consumption - power)
          IN  \E threshold \in {t \in GridThresholds \cup {least} : t >= least} :
                 /\ battery_power' = power
                 /\ battery_capacity' = power
                 /\ grid_threshold' = threshold
                 /\ battery_efficiency' = efficiency
                 /\ min_soc' = lowest
                 /\ max_soc' = highest
    /\ pc' = IF driver = "bess_ps_pa.main arbitrage" THEN "report" ELSE "initial_soc"
    /\ UNCHANGED <<prog, i, consumption, spot_prices, initial_soc, locals,
                   result, caller, session>>

\* bess_ps_pa.main, lines 304-307: the report of the top three hours, which
\* reads names that the CSV branch alone assigns
Session_Report ==
    /\ driver = "bess_ps_pa.main arbitrage"
    /\ pc = "report"
    /\ IF top_3_consumption = Unassigned
       THEN Raise("UnboundLocalError")
       ELSE /\ pc' = "initial_soc"
            /\ UNCHANGED result
    /\ UNCHANGED <<inputs, i, locals>>

\* the starting SOC and the head of the first loop
Session_InitialSoc ==
    /\ driver \in SessionMains
    /\ pc = "initial_soc"
    /\ \E site \in {"", "site"}, resp \in SOC_Responses :
          /\ site = "" => resp = Failed("ConnectionError")
          /\ site_id' = site
          /\ response' = IF site = "" THEN None ELSE resp
          /\ LET fetched == IF site = ""
                            THEN [outcome |-> "returned", value |-> None]
                            ELSE fetch_battery_soc(resp)
             IN  IF fetched.outcome = "returned"
                 THEN /\ fetched_soc' = fetched.value
                      /\ main_initial_soc' = Session_StartingSoc(fetched.value)
                      /\ current_soc' = Session_StartingSoc(fetched.value)
                      /\ pc' = "fetch"
                      /\ UNCHANGED result
                 ELSE /\ Raise(fetched.outcome)
                      /\ UNCHANGED <<fetched_soc, main_initial_soc, current_soc>>
    /\ UNCHANGED <<prog, i, consumption, spot_prices, grid_threshold, battery_power,
                   battery_capacity, battery_efficiency, min_soc, max_soc,
                   initial_soc, locals, driver, date_range, day, total_savings,
                   daily_results, dispatch_log, data_source, top_3_consumption,
                   results>>

\* bess_ps_pa.main, lines 382-479: past the arbitrage loop, on to the loop
\* around optimize_combined_peak_arbitrage, from initial_soc again
Session_OnToCombined ==
    /\ driver = "bess_ps_pa.main arbitrage"
    /\ data_source # NotChosen
    /\ pc = "fetch"
    /\ day > Len(date_range)
    /\ driver' = "bess_ps_pa.main combined"
    /\ prog' = "bess_ps_pa"
    /\ day' = 1
    /\ current_soc' = main_initial_soc
    /\ total_savings' = 0
    /\ daily_results' = <<>>
    /\ UNCHANGED <<pc, i, consumption, spot_prices, grid_threshold, battery_power,
                   battery_capacity, battery_efficiency, min_soc, max_soc,
                   initial_soc, locals, result, date_range, main_initial_soc,
                   dispatch_log, session>>

Session_Next ==
    \/ Session_DataEntry
    \/ Session_Parameters
    \/ Session_Report
    \/ Session_InitialSoc
    \/ Session_OnToCombined

(***************************************************************************)
(* Specifications: one per optimizer, and all of them together.            *)
(***************************************************************************)
Next ==
    \/ BB_Next
    \/ PS_Next
    \/ MN_Next
    \/ CPA_Next
    \/ AR_Next
    \/ PAS_Next
    \/ CPS_Call
    \/ Main_Next
    \/ FSP_Call
    \/ CMP_Next
    \/ Session_Next

Init ==
    \/ InitFor({"best_bess", "bess_size_app", "main", "bess_ps_pa", "arbitrage",
                "compute_peak_shaving_savings"})
    \/ InitPAS
    \/ InitMain(ArbitrageLoops \cup CombinedLoops)
    \/ InitFetch
    \/ InitCompare
    \/ InitSession

Spec ==
    Init /\ [][Next]_vars

SpecBB ==
    InitFor({"best_bess"}) /\ [][BB_Next]_vars

SpecPS ==
    InitFor({"best_bess", "bess_size_app"}) /\ [][BB_Next \/ PS_Next]_vars

SpecOptimizeBess ==
    InitFor({"best_bess", "bess_size_app", "main"})
      /\ [][BB_Next \/ PS_Next \/ MN_Next]_vars

SpecDispatch ==
    InitFor({"best_bess", "bess_ps_pa"}) /\ [][BB_Next \/ CPA_Next]_vars

SpecCPA ==
    InitFor({"bess_ps_pa"}) /\ [][CPA_Next]_vars

SpecArbitrage ==
    InitFor({"arbitrage"}) /\ [][AR_Next]_vars

SpecPAS ==
    InitPAS /\ [][PAS_Next]_vars

\* the three functions that return arbitrage savings with their schedules
SpecAccounting ==
    (InitPAS \/ InitFor({"arbitrage", "bess_ps_pa"}))
      /\ [][PAS_Next \/ AR_Next \/ CPA_Next]_vars

\* the three functions that select the arbitrage hours in the same words
SpecArbitrageHours ==
    (InitPAS \/ InitFor({"best_bess", "arbitrage"}))
      /\ [][PAS_Next \/ BB_Next \/ AR_Next]_vars

SpecSavings ==
    InitFor({"compute_peak_shaving_savings"}) /\ [][CPS_Call]_vars

SpecFetch ==
    InitFetch /\ [][FSP_Call]_vars

SpecCompare ==
    InitCompare /\ [][CMP_Next \/ BB_Next]_vars

\* main from its first line on, with the optimizers it calls
SpecSession ==
    InitSession /\ [][Session_Next \/ Main_Next \/ AR_Next \/ CPA_Next]_vars

SpecMain ==
    InitMain(ArbitrageLoops \cup CombinedLoops)
      /\ [][Main_Next \/ AR_Next \/ CPA_Next]_vars

\* every stored quantity is a multiple of 4 / Unit, so that no product or
\* quotient by an efficiency or a state-of-charge fraction is ever rounded
FixedPointExact ==
    /\ soc % 4 = 0
    /\ \A h \in Hours :
          /\ charge_schedule[h] % 4 = 0
          /\ discharge_schedule[h] % 4 = 0
          /\ net_grid_load[h] % 4 = 0

(***************************************************************************)
(* Properties.                                                             *)
(***************************************************************************)
Returned ==
    result.outcome = "returned"

Finished ==
    pc \in {"returned", "raised"}

\* a <= b for fractions with positive denominators
FracLeq(a, b) ==
    a[1] * b[2] <= b[1] * a[2]

soc_floor ==
    Mul(battery_capacity, min_soc)

soc_ceiling ==
    Mul(battery_capacity, max_soc)

\* C1: for best_bess.optimize_bess with a battery (capacity > 0) and valid
\* inputs, the net grid load of every hour is >= 0, in the returned schedule
\* and at every point of the three passes that lead to it.
C1_NetGridLoadNonNegative ==
    (prog = "best_bess" /\ battery_capacity > 0)
      => \A h \in Hours : net_grid_load[h] >= 0 /\ result.net_grid_load[h] >= 0

\* an arbitrage discharge took an hour's returned net grid load down to zero
C1_Witness ==
    /\ prog = "best_bess"
    /\ battery_capacity > 0
    /\ Returned
    /\ \E h \in Hours :
          /\ result.net_grid_load[h] = 0
          /\ consumption[h] > grid_threshold
          /\ result.discharge_schedule[h] = consumption[h]

\* C2: in best_bess.optimize_bess and in the peak-shaving-only optimize_bess
\* the running soc stays within [min_soc * capacity, max_soc * capacity]
\* after every update (min_soc <= max_soc, capacity > 0).
C2_SocWithinBounds ==
    (/\ prog \in {"best_bess", "bess_size_app"}
     /\ pc # "enter"
     /\ battery_capacity > 0
     /\ FracLeq(min_soc, max_soc))
      => (soc_floor <= soc /\ soc <= soc_ceiling)

\* C3: in optimize_combined_peak_arbitrage, started within the SOC bounds
\* with capacity > 0, the running soc stays within [min_soc * capacity,
\* max_soc * capacity] after every charge and discharge, and the returned
\* ending SOC fraction lies in [min_soc, max_soc].
C3_CombinedSocWithinBounds ==
    (/\ prog = "bess_ps_pa"
     /\ pc # "enter"
     /\ battery_capacity > 0
     /\ FracLeq(min_soc, initial_soc)
     /\ FracLeq(initial_soc, max_soc))
      => /\ soc_floor <= soc
         /\ soc <= soc_ceiling
         /\ Returned => /\ FracLeq(min_soc, result.ending_soc)
                        /\ FracLeq(result.ending_soc, max_soc)

\* a run that charged to the ceiling, then discharged down to the floor
C3_Witness ==
    /\ prog = "bess_ps_pa"
    /\ Returned
    /\ initial_soc = min_soc
    /\ soc_floor < soc_ceiling
    /\ soc_floor > 0
    /\ soc = soc_floor
    /\ \E h \in Hours : result.charge_schedule[h] > 0
    /\ \E h \in Hours : result.discharge_schedule[h] > 0

\* the state of charge at hour boundary h when the returned schedule is
\* replayed in chronological order
RECURSIVE ReplayedSoc(_)
ReplayedSoc(h) ==
    IF h = 0 THEN Mul(battery_capacity, initial_soc)
    ELSE ReplayedSoc(h - 1)
           + Mul(result.charge_schedule[h - 1], battery_efficiency)
           - Div(result.discharge_schedule[h - 1], battery_efficiency)

\* C4: the schedule returned by optimize_combined_peak_arbitrage, replayed
\* in chronological hour order, keeps the state of charge within
\* [min_soc * capacity, max_soc * capacity] at every hour boundary.
C4_ChronologicalSocWithinBounds ==
    (/\ prog = "bess_ps_pa"
     /\ Returned
     /\ FracLeq(min_soc, initial_soc)
     /\ FracLeq(initial_soc, max_soc))
      => \A h \in 0 .. NumHours :
            soc_floor <= ReplayedSoc(h) /\ ReplayedSoc(h) <= soc_ceiling

\* C5: every hour of the schedule returned by best_bess.optimize_bess and by
\* optimize_combined_peak_arbitrage charges at most battery_power and
\* discharges at most battery_power.
C5_WithinPowerLimit ==
    (prog \in {"best_bess", "bess_ps_pa"} /\ battery_capacity > 0 /\ Returned)
      => \A h \in Hours :
            /\ result.charge_schedule[h] <= battery_power
            /\ result.discharge_schedule[h] <= battery_power

\* C6: every hour of the schedule of best_bess.optimize_bess and of
\* optimize_combined_peak_arbitrage has charge >= 0 and discharge >= 0, in
\* the returned schedule and while it is built.
C6_SchedulesNonNegative ==
    (/\ prog \in {"best_bess", "bess_ps_pa"}
     /\ battery_capacity > 0
     /\ FracLeq(min_soc, initial_soc)
     /\ FracLeq(initial_soc, max_soc))
      => \A h \in Hours :
            /\ charge_schedule[h] >= 0
            /\ discharge_schedule[h] >= 0
            /\ result.charge_schedule[h] >= 0
            /\ result.discharge_schedule[h] >= 0

\* a combined run that left a peak hour above the threshold without touching
\* it, so that step 4 computed a negative charge for it and skipped it
C6_Witness ==
    /\ prog = "bess_ps_pa"
    /\ battery_capacity > 0
    /\ Returned
    /\ \E h \in Hours :
          /\ result.net_grid_load[h] > grid_threshold
          /\ result.charge_schedule[h] = 0
          /\ result.discharge_schedule[h] = 0
          /\ spot_prices[h] * NumHours < SumOver(Hours, spot_prices)
    /\ \E h \in Hours : result.charge_schedule[h] > 0

\* C7: in the result of best_bess.optimize_bess and of the peak-shaving-only
\* optimize_bess, net_grid_load[h] = consumption[h] - discharge_schedule[h]
\* + charge_schedule[h] for every hour, so an hour the battery could not
\* shave completely is returned above the threshold.
C7_NetLoadIdentity ==
    (prog \in {"best_bess", "bess_size_app"} /\ Returned)
      => \A h \in Hours :
            result.net_grid_load[h] =
               consumption[h] - result.discharge_schedule[h] + result.charge_schedule[h]

\* the excess of hour h over the threshold, max(0, consumption[h] - threshold)
Excess(h) ==
    Max2(0, consumption[h] - grid_threshold)

\* C8 as stated: if battery_power * 24 >= max(0, consumption[h] - threshold)
\* for every hour and stored energy never limits a discharge, then the
\* combined optimizer returns net_grid_load[h] <= grid_threshold everywhere.
C8_ShavedWithDailyPower ==
    (/\ prog = "bess_ps_pa"
     /\ Returned
     /\ ~energy_bound
     /\ \A h \in Hours : battery_power * 24 >= Excess(h))
      => \A h \in Hours : result.net_grid_load[h] <= grid_threshold

\* C8 as amended: if battery_power >= max(0, consumption[h] - threshold) for
\* every hour and stored energy never limits a discharge, then the combined
\* optimizer returns net_grid_load[h] <= grid_threshold for every hour.
C8_ShavedWithHourlyPower ==
    (/\ prog = "bess_ps_pa"
     /\ Returned
     /\ ~energy_bound
     /\ \A h \in Hours : battery_power >= Excess(h))
      => \A h \in Hours : result.net_grid_load[h] <= grid_threshold

\* a run that shaved a peak hour to the threshold and brought a hour it had
\* charged above the threshold back to it
C8_Witness ==
    /\ prog = "bess_ps_pa"
    /\ Returned
    /\ ~energy_bound
    /\ \A h \in Hours : battery_power >= Excess(h)
    /\ \E h \in Hours : Excess(h) > 0 /\ result.discharge_schedule[h] = Excess(h)
    /\ \E h \in Hours : result.charge_schedule[h] > 0 /\ result.discharge_schedule[h] > 0

\* C9: with battery_capacity = 0 the optimize_bess of best_bess.py, of the
\* peak-shaving-only application and of main.py returns all-zero charge and
\* discharge schedules and a net grid load equal to the consumption.
C9_NoBatteryNoOp ==
    (/\ prog \in {"best_bess", "bess_size_app", "main"}
     /\ battery_capacity = 0
     /\ pc # "enter")
      => /\ Returned
         /\ result.charge_schedule = ZeroSchedule
         /\ result.discharge_schedule = ZeroSchedule
         /\ result.net_grid_load = consumption

C9_Witness ==
    /\ prog = "main"
    /\ battery_capacity = 0
    /\ Returned
    /\ \E h \in Hours : consumption[h] > grid_threshold

\* C10: optimize_combined_peak_arbitrage with battery_capacity = 0 returns,
\* without raising, all-zero schedules, net_grid_load = consumption and
\* savings 0.
C10_CombinedNoBatteryNoOp ==
    (prog = "bess_ps_pa" /\ battery_capacity = 0 /\ Finished)
      => /\ Returned
         /\ result.charge_schedule = ZeroSchedule
         /\ result.discharge_schedule = ZeroSchedule
         /\ result.net_grid_load = consumption
         /\ result.arbitrage_savings = 0

\* the state of charge carried out of the last date a loop processed
LastCarriedSoc ==
    IF dispatch_log = <<>> THEN main_initial_soc
    ELSE dispatch_log[Len(dispatch_log)].carried_soc

\* C11: in the multi-day loops of bess_ps_pa.main and of bess_ps.main, the
\* iteration of a date whose prices are unavailable leaves current_soc, the
\* running total and the stored daily results as they were, and every call
\* of the optimizer starts from the state of charge carried out of the last
\* date that was processed.
C11_SkipLeavesCarriedState ==
    [][/\ (driver # "none" /\ pc = "fetch" /\ pc' = "fetch")
            => /\ Main_Unavailable(spot_prices')
               /\ current_soc' = current_soc
               /\ total_savings' = total_savings
               /\ daily_results' = daily_results
       /\ (driver # "none" /\ pc = "fetch" /\ pc' = "enter")
            => initial_soc' = LastCarriedSoc]_vars

\* a date was skipped between two processed dates, and the second of them
\* started from the state of charge the first one left, which was not the
\* initial one
C11_Witness ==
    /\ driver # "none"
    /\ \E k \in 1 .. (Len(dispatch_log) - 1) :
          /\ dispatch_log[k + 1].date > dispatch_log[k].date + 1
          /\ dispatch_log[k].carried_soc # main_initial_soc
          /\ dispatch_log[k + 1].starting_soc = dispatch_log[k].carried_soc

\* C12: a multi-day loop over a range of one date whose prices are
\* available stores for that date the charge schedule, the discharge
\* schedule and the savings that the one call of the optimizer returned for
\* the consumption, the prices, the battery parameters and the initial SOC
\* of main, and its total is the savings of that call.
C12_SingleDateAsDirectCall ==
    (/\ driver # "none"
     /\ Len(date_range) = 1
     /\ day = 2
     /\ Len(dispatch_log) = 1)
      => /\ Returned
         /\ initial_soc = main_initial_soc
         /\ DOMAIN daily_results = {date_range[1]}
         /\ LET stored == daily_results[date_range[1]]
            IN  /\ stored[1] = result.charge_schedule
                /\ stored[2] = result.discharge_schedule
                /\ stored[Len(stored)] = result.arbitrage_savings
                /\ driver \in CombinedLoops => stored[3] = result.net_grid_load
         /\ total_savings = result.arbitrage_savings

\* the one date of a combined loop was processed, with a charge, a
\* discharge and savings other than zero
C12_Witness ==
    /\ driver \in CombinedLoops
    /\ Len(date_range) = 1
    /\ day = 2
    /\ Len(dispatch_log) = 1
    /\ total_savings # 0
    /\ \E h \in Hours : daily_results[1][1][h] > 0
    /\ \E h \in Hours : daily_results[1][2][h] > 0

\* C13: the combined loop of bess_ps_pa.main processes its dates in
\* chronological order; the first call of optimize_combined_peak_arbitrage
\* starts from initial_soc and every later one from the ending SOC fraction
\* the call for the most recent processed date returned.
C13_CombinedCarriesEndingSoc ==
    driver \in CombinedLoops
      => /\ \A k \in 1 .. Len(dispatch_log) :
               IF k = 1
               THEN dispatch_log[k].starting_soc = main_initial_soc
               ELSE /\ dispatch_log[k].starting_soc = dispatch_log[k - 1].ending_soc
                    /\ dispatch_log[k - 1].date < dispatch_log[k].date
         /\ pc # "fetch"
               => /\ initial_soc =
                        IF dispatch_log = <<>> THEN main_initial_soc
                        ELSE dispatch_log[Len(dispatch_log)].ending_soc
                  /\ \A k \in 1 .. Len(dispatch_log) :
                        dispatch_log[k].date < date_range[day]

\* three dates were processed, each ending at another SOC than it started
\* from
C13_Witness ==
    /\ driver \in CombinedLoops
    /\ Len(dispatch_log) >= 3
    /\ \A k \in 1 .. Len(dispatch_log) :
          dispatch_log[k].starting_soc # dispatch_log[k].ending_soc

\* C14: the optimize_bess that the arbitrage loops call (bess_ps_pa.py and
\* bess_ps.py) returns net_grid_load[h] >= 0 for every hour, for a
\* consumption >= 0 and battery_power > 0.
C14_ArbitrageNetLoadNonNegative ==
    (/\ prog = "arbitrage"
     /\ Returned
     /\ battery_power > 0
     /\ \A h \in Hours : consumption[h] >= 0)
      => \A h \in Hours : result.net_grid_load[h] >= 0

\* the profile with the consumption of hours h and g exchanged
Exchanged(profile, h, g) ==
    [profile EXCEPT ![h] = profile[g], ![g] = profile[h]]

\* C15: compute_peak_shaving_savings returns peak_shaving, the largest
\* excess of an hour's consumption over the threshold or 0 if there is none,
\* and total_savings = peak_shaving * 624; both are >= 0, both are 0 when no
\* hour exceeds the threshold, and exchanging two hours changes neither.
C15_PeakShavingSavings ==
    (prog = "compute_peak_shaving_savings" /\ Returned)
      => /\ result.peak_shaving >= 0
         /\ \A h \in Hours : result.peak_shaving >= consumption[h] - grid_threshold
         /\ \/ result.peak_shaving = 0
            \/ \E h \in Hours : result.peak_shaving = consumption[h] - grid_threshold
         /\ result.total_savings = result.peak_shaving * 624
         /\ result.total_savings >= 0
         /\ (\A h \in Hours : consumption[h] <= grid_threshold)
               => (result.peak_shaving = 0 /\ result.total_savings = 0)
         /\ \A h, g \in Hours :
               compute_peak_shaving_savings(Exchanged(consumption, h, g),
                                            grid_threshold)
                  = <<result.peak_shaving, result.total_savings>>

\* the peak of an uneven profile exceeds the threshold
C15_Witness ==
    /\ prog = "compute_peak_shaving_savings"
    /\ Returned
    /\ result.peak_shaving > 0
    /\ result.total_savings > result.peak_shaving
    /\ \E h \in Hours : consumption[h] < grid_threshold

\* C16: the arbitrage savings returned by price_arbitrage_schedule, by the
\* arbitrage-only optimize_bess and by optimize_combined_peak_arbitrage are
\* the sum over the hours of discharge_schedule[h] * spot_prices[h] minus
\* the sum of charge_schedule[h] * spot_prices[h], on the returned schedules.
C16_SavingsFromSchedules ==
    (/\ prog \in {"price_arbitrage_schedule", "arbitrage", "bess_ps_pa"}
     /\ Returned)
      => result.arbitrage_savings =
            SumOver(Hours, [h \in Hours |-> result.discharge_schedule[h] * spot_prices[h]])
              - SumOver(Hours, [h \in Hours |-> result.charge_schedule[h] * spot_prices[h]])

\* a combined run whose final check added a discharge to an hour that had
\* been charged, at prices that differ
C16_Witness ==
    /\ prog = "bess_ps_pa"
    /\ Returned
    /\ result.arbitrage_savings < 0
    /\ \E h \in Hours :
          /\ result.charge_schedule[h] > 0
          /\ result.discharge_schedule[h] > 0
          /\ spot_prices[h] > 0
    /\ \E h, g \in Hours : spot_prices[h] # spot_prices[g]

\* the hours of a list of hours
Selected(indices) ==
    {indices[k] : k \in 1 .. Len(indices)}

\* C17: lowest_prices_indices holds the 3 hours of lowest price and
\* highest_prices_indices the 3 hours of highest price, cheapest resp.
\* dearest first; between two hours of equal price the earlier hour comes
\* first and is selected first, in both lists.  The arbitrage-only
\* optimize_bess charges exactly the one and discharges exactly the other.
C17_EarliestAmongEqualPrices ==
    (prog \in {"best_bess", "arbitrage", "price_arbitrage_schedule"} /\ Returned)
      => LET lowest == lowest_prices_indices
             highest == highest_prices_indices
         IN  /\ Len(lowest) = 3
             /\ Len(highest) = 3
             /\ \A j, k \in 1 .. 3 :
                   j < k =>
                     /\ \/ spot_prices[lowest[j]] < spot_prices[lowest[k]]
                        \/ /\ spot_prices[lowest[j]] = spot_prices[lowest[k]]
                           /\ lowest[j] < lowest[k]
                     /\ \/ spot_prices[highest[j]] > spot_prices[highest[k]]
                        \/ /\ spot_prices[highest[j]] = spot_prices[highest[k]]
                           /\ highest[j] < highest[k]
             /\ \A h \in Selected(lowest) : \A g \in Hours \ Selected(lowest) :
                   \/ spot_prices[h] < spot_prices[g]
                   \/ (spot_prices[h] = spot_prices[g] /\ h < g)
             /\ \A h \in Selected(highest) : \A g \in Hours \ Selected(highest) :
                   \/ spot_prices[h] > spot_prices[g]
                   \/ (spot_prices[h] = spot_prices[g] /\ h < g)
             /\ (prog = "arbitrage" /\ battery_power > 0)
                   => /\ {h \in Hours : result.charge_schedule[h] > 0}
                           = Selected(lowest)
                      /\ {h \in Hours : result.discharge_schedule[h] > 0}
                           = Selected(highest)

\* a returned schedule for prices that are equal between a selected and an
\* unselected hour, among the cheapest and among the dearest, and that are
\* not all equal
C17_Witness ==
    /\ prog = "price_arbitrage_schedule"
    /\ Returned
    /\ \E h \in Selected(lowest_prices_indices) :
          /\ result.charge_schedule[h] > 0
          /\ \E g \in Hours \ Selected(lowest_prices_indices) :
                spot_prices[h] = spot_prices[g]
    /\ \E h \in Selected(highest_prices_indices) :
          /\ result.discharge_schedule[h] > 0
          /\ \E g \in Hours \ Selected(highest_prices_indices) :
                spot_prices[h] = spot_prices[g]
    /\ \E h, g \in Hours : spot_prices[h] < spot_prices[g]

\* all the hours have the same price
FlatPrices ==
    \A h, g \in Hours : spot_prices[h] = spot_prices[g]

StrictlyDecreasingPrices ==
    \A h \in Hours \ {0} : spot_prices[h] < spot_prices[h - 1]

\* C19: price_arbitrage_schedule with strictly decreasing prices,
\* battery_power = 100, battery_capacity = 1000 and efficiency 1 returns a
\* charge of 100 in the last 3 hours and 0 elsewhere, a discharge of 100 in
\* hours 0, 1, 2 and 0 elsewhere, and savings of 100 times the sum of the
\* first 3 prices minus 100 times the sum of the last 3 prices.
C19_DecreasingPricesSchedule ==
    (/\ prog = "price_arbitrage_schedule"
     /\ Returned
     /\ StrictlyDecreasingPrices
     /\ battery_power = kW(100)
     /\ battery_capacity = kW(1000)
     /\ battery_efficiency = One)
      => /\ \A h \in Hours :
               /\ result.charge_schedule[h]
                     = IF h >= NumHours - 3 THEN kW(100) ELSE 0
               /\ result.discharge_schedule[h] = IF h <= 2 THEN kW(100) ELSE 0
         /\ result.arbitrage_savings =
               kW(100) * (spot_prices[0] + spot_prices[1] + spot_prices[2])
                 - kW(100) * (spot_prices[NumHours - 3] + spot_prices[NumHours - 2]
                                + spot_prices[NumHours - 1])

\* the scenario was run, at prices that end below zero
C19_Witness ==
    /\ prog = "price_arbitrage_schedule"
    /\ Returned
    /\ StrictlyDecreasingPrices
    /\ battery_power = kW(100)
    /\ battery_capacity = kW(1000)
    /\ battery_efficiency = One
    /\ spot_prices[NumHours - 1] < 0
    /\ result.arbitrage_savings > 0
    /\ soc = 0

\* C20: no hour of the schedule returned by best_bess.optimize_bess or by
\* optimize_combined_peak_arbitrage has both a charge > 0 and a discharge
\* > 0.
C20_ChargeOrDischarge ==
    (prog \in {"best_bess", "bess_ps_pa"} /\ Returned)
      => \A h \in Hours :
            ~(result.charge_schedule[h] > 0 /\ result.discharge_schedule[h] > 0)

\* the final pass of best_bess.optimize_bess, lines 95-109, is running
BB_InFinalPass ==
    prog = "best_bess" /\ pc \in {"final_discharge", "final_charge"}

\* C28: in best_bess.optimize_bess, with consumption >= 0 and
\* grid_threshold >= 0, every hour has 0 <= net_grid_load <= grid_threshold
\* when the final enforcement pass starts and at each of its steps, and no
\* step of that pass changes charge_schedule, discharge_schedule,
\* net_grid_load or soc.
C28_FinalPassChangesNothing ==
    [][BB_InFinalPass
         => /\ \A h \in Hours :
                  0 <= net_grid_load[h] /\ net_grid_load[h] <= grid_threshold
            /\ UNCHANGED <<charge_schedule, discharge_schedule, net_grid_load,
                           soc>>]_vars

\* the final pass ran to the return after a first pass that shaved a peak
\* and a second pass that charged and discharged
C28_Witness ==
    /\ prog = "best_bess"
    /\ Returned
    /\ battery_capacity > 0
    /\ \E h \in Hours : consumption[h] > grid_threshold
    /\ \E h \in Hours : result.charge_schedule[h] > 0
    /\ \E h \in Hours :
          result.discharge_schedule[h] > 0 /\ consumption[h] <= grid_threshold
    /\ \A h \in Hours :
          result.net_grid_load[h]
            = consumption[h] + result.charge_schedule[h]
                - result.discharge_schedule[h]

\* C30: what optimize_combined_peak_arbitrage returns for a battery
\* (capacity > 0) is consistent: the ending SOC fraction times the capacity
\* is the starting energy plus, over the hours, charge * efficiency minus
\* discharge / efficiency, and the net grid load of every hour is the
\* consumption minus the discharge plus the charge.  The energy balance is
\* computed multiplied by numerator * denominator of the efficiency.
C30_ReturnedValuesConsistent ==
    (prog = "bess_ps_pa" /\ Returned /\ battery_capacity > 0)
      => LET n == battery_efficiency[1]
             d == battery_efficiency[2]
             stored == [h \in Hours |->
                          result.charge_schedule[h] * n * n
                            - result.discharge_schedule[h] * d * d]
             balance == Mul(battery_capacity, initial_soc) * n * d
                          + SumOver(Hours, stored)
         IN  /\ balance % (n * d) = 0
             /\ result.ending_soc
                   = Fraction(balance \div (n * d), battery_capacity)
             /\ \A h \in Hours :
                   result.net_grid_load[h]
                     = consumption[h] - result.discharge_schedule[h]
                         + result.charge_schedule[h]

\* a lossy battery that was charged and discharged, and ends the day at
\* another state of charge than it started with
C30_Witness ==
    /\ prog = "bess_ps_pa"
    /\ Returned
    /\ battery_capacity > 0
    /\ battery_efficiency = Half
    /\ result.ending_soc # initial_soc
    /\ \E h \in Hours : result.charge_schedule[h] > 0
    /\ \E h \in Hours : result.discharge_schedule[h] > 0

\* the fraction f lies within [min_soc, max_soc]
WithinSocBounds(f) ==
    FracLeq(min_soc, f) /\ FracLeq(f, max_soc)

\* C29: in the arbitrage loops of bess_ps_pa.main and of bess_ps.main, with
\* min_soc <= max_soc and 0 < efficiency <= 1, a processed date that starts
\* with the carried SOC within [min_soc, max_soc] leaves it within
\* [min_soc, max_soc] and not higher than it was; every date starts from
\* what the last processed date left, so that the carried SOC never rises
\* over a run of processed and skipped dates.
C29_CarriedSocNeverRises ==
    (driver \in ArbitrageLoops /\ FracLeq(min_soc, max_soc))
      => /\ \A k \in 1 .. Len(dispatch_log) :
               LET before == dispatch_log[k].starting_soc
                   after == dispatch_log[k].carried_soc
               IN  /\ before = IF k = 1 THEN main_initial_soc
                                ELSE dispatch_log[k - 1].carried_soc
                   /\ WithinSocBounds(before)
                         => WithinSocBounds(after) /\ FracLeq(after, before)
         /\ (pc = "fetch" /\ WithinSocBounds(main_initial_soc))
               => /\ current_soc = LastCarriedSoc
                  /\ WithinSocBounds(current_soc)
                  /\ FracLeq(current_soc, main_initial_soc)

\* two dates were processed around a skipped one, the first of them lowered
\* the carried SOC from within the bounds, the second left it at the floor
C29_Witness ==
    /\ driver \in ArbitrageLoops
    /\ pc = "fetch"
    /\ Len(dispatch_log) = 2
    /\ dispatch_log[2].date > dispatch_log[1].date + 1
    /\ WithinSocBounds(main_initial_soc)
    /\ dispatch_log[1].carried_soc # dispatch_log[1].starting_soc
    /\ FracLeq(dispatch_log[1].carried_soc, dispatch_log[1].starting_soc)
    /\ current_soc = min_soc

\* C25: fetch_spot_prices of bess_ps_pa.py ends every request by returning
\* either None or the list of the NumHours prices of the payload, in
\* payload order; it raises nothing, whatever the request met.
C25_PricesOrUnavailable ==
    (prog = "fetch_spot_prices" /\ Finished)
      => /\ result.outcome = "returned"
         /\ \/ result.value = None
            \/ /\ DOMAIN result.value = Hours
               /\ \A h \in Hours :
                     result.value[h]
                       = response.json.items[h + 1].fields.NOK_per_kWh

\* a candidate size, in kWh, as a battery capacity
CMP_CapacityOfSize(size) ==
    kW(size)

\* C26: compare_bess_sizes of best_bess.py compares battery sizes: the
\* entry of results for each candidate size holds the cost and the savings
\* of optimize_bess run with that size as the battery capacity, and the
\* size it recommends is a candidate of maximal savings.
C26_ComparesCandidateSizes ==
    (driver \in CompareLoops /\ pc = "compared")
      => /\ \A k \in 1 .. Len(bess_sizes) :
               /\ dispatch_log[k].size = bess_sizes[k]
               /\ dispatch_log[k].battery_capacity = CMP_CapacityOfSize(bess_sizes[k])
         /\ \A size \in DOMAIN result.results :
               result.results[size].savings
                 <= result.results[result.best_size].savings

\* a run of main that has chosen its data source
InSession ==
    data_source # NotChosen

\* main is about to call an optimizer from one of its loops
Session_Calls ==
    /\ InSession
    /\ pc = "enter"

\* C27: bess_ps_pa.main gets to its loops with a consumption entered by
\* hand as well as with an uploaded CSV: what the top-3 report reads
\* (top_3_consumption, date_with_highest_consumption) has been assigned on
\* every path that reaches the report, and no run ends in UnboundLocalError.
C27_BothSourcesReachTheLoop ==
    InSession =>
       /\ pc = "report" => top_3_consumption # Unassigned
       /\ result.outcome # "UnboundLocalError"

\* C21: no optimizer is called with min_soc above max_soc, or with a power
\* or a capacity that is not positive.
C21_InvalidConfigurationRejected ==
    Session_Calls =>
       /\ FracLeq(min_soc, max_soc)
       /\ battery_power > 0
       /\ battery_capacity > 0

\* C22: the consumption and the prices an optimizer is called with have one
\* value for every hour of the day.
C22_OnlyWholeDaysOptimized ==
    Session_Calls =>
       /\ DOMAIN consumption = Hours
       /\ DOMAIN spot_prices = Hours

\* C24: with bounds in order, every call of an optimizer from the loops of
\* main starts from a state of charge within [min_soc, max_soc].
C24_StartingSocWithinBounds ==
    (Session_Calls /\ FracLeq(min_soc, max_soc)) => WithinSocBounds(initial_soc)

\* the live SOC is unavailable for one of the reasons fetch_battery_soc
\* answers None for: the request failed, the body was no JSON, or the JSON
\* object holds no batterySoc
SOC_Unavailable ==
    \/ site_id = ""
    \/ response \in RequestFailures
    \/ /\ response.json.type = "object"
       /\ \/ "batterySoc" \notin DOMAIN response.json.fields
          \/ response.json.fields.batterySoc = JsonNull

\* main is past the choice of its starting SOC
Session_Started ==
    /\ InSession
    /\ pc \notin {"data_entry", "parameters", "report", "initial_soc", "stopped"}
    /\ result.outcome \notin {"UnboundLocalError", "AttributeError"}

====
